---- MODULE Spec2Model ----
(***************************************************************************)
(* Model of the nutrition lookup of actions/actions.py: the name           *)
(* normalizer, the column resolver, the dataset standardizer, the lazily   *)
(* loaded process-wide index and the three-tier food lookup, driven by     *)
(* concurrent ActionGetNutrition.run calls.                                *)
(*                                                                         *)
(* Text is a sequence of one-character strings.  A CSV cell is text; the   *)
(* empty cell <<>> is what pandas.read_csv turns into NaN.  pandas is the  *)
(* pandas of the 1.x and 2.x lines, where Series.astype(str) turns NaN     *)
(* into the text "nan".  The content of the dataset file does not change   *)
(* while the process runs; the file itself may be taken away and put back. *)
(***************************************************************************)
EXTENDS Integers, Sequences, FiniteSets, TLC

VARIABLES
    file,           \* the dataset file's content (fixed for the process lifetime)
    fileExists,     \* os.path.exists(KAGGLE_CSV)
    _DATA_LOADED,   \* module global, line 20
    _KAGGLE_INDEX,  \* module global, line 21: a dict, kept in insertion order
    _ALL_KEYS,      \* module global, line 22
    pc,             \* per worker: position inside ActionGetNutrition.run
    food,           \* per worker: the food text of the request
    df,             \* per worker: local df of _load_local_dataset
    row,            \* per worker: loop position of "for _, r in df.iterrows()"
    hit,            \* per worker: value returned by _lookup_food
    tier,           \* per worker: which return statement of _lookup_food ran
    reply,          \* per worker: the message uttered by run
    nLoads,         \* history: number of loads that got past read + standardize
    menu,           \* the food texts a request may carry
    normIn,         \* input of the normalizer under test
    normOut         \* results of applying _norm_food_name once and twice

vars == <<file, fileExists, _DATA_LOADED, _KAGGLE_INDEX, _ALL_KEYS, pc, food,
          df, row, hit, tier, reply, nLoads, menu, normIn, normOut>>

-----------------------------------------------------------------------------
(* Bounds *)

NumWorkers == 2
MaxRows == 2
MaxStrLen == 4

-----------------------------------------------------------------------------
(* Text *)

TAB == "\t"

\* str.strip() / str.split() whitespace
Whitespace == {" ", TAB, "\n", "\r"}

\* the argument of the second strip of _norm_food_name
StripChars == {" ", ".", ",", "!", "?", ":", ";", "\"", "'", "(", ")", "[", "]", "{", "}"}

LowerCase == <<"a","b","c","d","e","f","g","h","i","j","k","l","m",
               "n","o","p","q","r","s","t","u","v","w","x","y","z">>
UpperCase == <<"A","B","C","D","E","F","G","H","I","J","K","L","M",
               "N","O","P","Q","R","S","T","U","V","W","X","Y","Z">>

\* str.upper() and str.lower(), character by character
UpperChar == [c \in {LowerCase[n] : n \in 1..Len(LowerCase)} |->
                 UpperCase[CHOOSE n \in 1..Len(LowerCase) : LowerCase[n] = c]]
LowerChar == [c \in {UpperCase[n] : n \in 1..Len(UpperCase)} |->
                 LowerCase[CHOOSE n \in 1..Len(UpperCase) : UpperCase[n] = c]]

Upper(s) == [n \in 1..Len(s) |-> IF s[n] \in DOMAIN UpperChar THEN UpperChar[s[n]] ELSE s[n]]
Lower(s) == [n \in 1..Len(s) |-> IF s[n] \in DOMAIN LowerChar THEN LowerChar[s[n]] ELSE s[n]]

RECURSIVE LStrip(_, _)
LStrip(s, chars) ==
    IF s # <<>> /\ Head(s) \in chars THEN LStrip(Tail(s), chars) ELSE s

RECURSIVE RStrip(_, _)
RStrip(s, chars) ==
    IF s # <<>> /\ s[Len(s)] \in chars
    THEN RStrip(SubSeq(s, 1, Len(s) - 1), chars)
    ELSE s

\* str.strip(chars): from both ends only
Strip(s, chars) == RStrip(LStrip(s, chars), chars)

\* str.split(): the maximal runs of non-whitespace
RECURSIVE Split(_, _)
Split(s, word) ==
    IF s = <<>>
    THEN IF word = <<>> THEN <<>> ELSE <<word>>
    ELSE IF Head(s) \in Whitespace
         THEN (IF word = <<>> THEN <<>> ELSE <<word>>) \o Split(Tail(s), <<>>)
         ELSE Split(Tail(s), Append(word, Head(s)))

\* " ".join(words)
RECURSIVE Join(_)
Join(words) ==
    IF words = <<>> THEN <<>>
    ELSE IF Len(words) = 1 THEN words[1]
    ELSE words[1] \o <<" ">> \o Join(Tail(words))

\* "q in k" on str
IsSubstring(q, k) ==
    \E n \in 1..(Len(k) - Len(q) + 1) : SubSeq(k, n, n + Len(q) - 1) = q

_norm_food_name(s) ==
    LET s1 == Strip(s, Whitespace)
        s2 == Strip(s1, StripChars)
    IN  Join(Split(Upper(s2), <<>>))

-----------------------------------------------------------------------------
(* Numbers as pandas and float() see them *)

None == [k |-> "none", n |-> 0]
NaN == [k |-> "nan", n |-> 0]
Num(x) == [k |-> "num", n |-> x]

Digits == <<"0", "1", "2", "3", "4", "5", "6", "7", "8", "9">>
IsDigit(c) == \E d \in 1..Len(Digits) : Digits[d] = c
DigitValue(c) == (CHOOSE d \in 1..Len(Digits) : Digits[d] = c) - 1

RECURSIVE DecimalValue(_)
DecimalValue(s) ==
    IF s = <<>> THEN 0
    ELSE 10 * DecimalValue(SubSeq(s, 1, Len(s) - 1)) + DigitValue(s[Len(s)])

\* pd.to_numeric(cell, errors="coerce") on one cell of whole-number or
\* non-numeric text: the empty cell (NaN), blank and unparsable text give NaN
ToNumeric(cell) ==
    LET t == Strip(cell, Whitespace)
    IN  IF t # <<>> /\ \A n \in 1..Len(t) : IsDigit(t[n])
        THEN Num(DecimalValue(t))
        ELSE NaN

\* Series.astype(str) on one cell: the NaN of an empty cell becomes "nan"
AsTypeStr(cell) == IF cell = <<>> THEN <<"n", "a", "n">> ELSE cell

\* _to_float on what a row of df holds: None, or a float (NaN is a float)
_to_float(x) == IF x = None THEN None ELSE x

-----------------------------------------------------------------------------
(* Column resolver *)

ItemCandidates == << <<"i","t","e","m">>, <<"f","o","o","d">>, <<"n","a","m","e">>,
                     <<"d","e","s","c","r","i","p","t","i","o","n">> >>
KcalCandidates == << <<"c","a","l","o","r","i","e","s">>, <<"k","c","a","l">>,
                     <<"e","n","e","r","g","y","_","k","c","a","l">> >>
ProteinCandidates == << <<"p","r","o","t","e","i","n">> >>
FatCandidates == << <<"f","a","t">> >>
CarbsCandidates == << <<"c","a","r","b","s">>,
                      <<"c","a","r","b","o","h","y","d","r","a","t","e">> >>

\* Position in cols of the column _pick_col returns, 0 for None (the column
\* names of a frame read by read_csv are distinct)
_pick_col(cols, candidates) ==
    LET cl == [n \in 1..Len(cols) |-> Lower(cols[n])]
        cand == [c \in 1..Len(candidates) |-> Lower(candidates[c])]
        \* cols_lower, line 60: a later column replaces an earlier one of the same key
        cols_lower == [c \in 1..Len(candidates) |-> {n \in 1..Len(cols) : cl[n] = cand[c]}]
        exact == {c \in 1..Len(candidates) : cols_lower[c] # {}}
        sub == {n \in 1..Len(cols) :
                   \E c \in 1..Len(candidates) : IsSubstring(cand[c], cl[n])}
    IN  IF exact # {}
        THEN LET first == CHOOSE c \in exact : \A o \in exact : c <= o
             IN  CHOOSE n \in cols_lower[first] : \A o \in cols_lower[first] : n >= o
        ELSE IF sub # {} THEN CHOOSE n \in sub : \A o \in sub : n <= o
        ELSE 0

-----------------------------------------------------------------------------
(* Dataset standardizer *)

\* out.dropna(subset=["item", "calories"]): item holds str, which is never NA
DropNa(rows) == SelectSeq(rows, LAMBDA r : r.calories # NaN)

\* a variant that keeps the last of each key (keep="last")
RECURSIVE DropDuplicatesKeepLast(_, _)
DropDuplicatesKeepLast(rows, seen) ==
    IF rows = <<>> THEN <<>>
    ELSE IF \E n \in 2..Len(rows) : rows[n].item_norm = Head(rows).item_norm
         THEN DropDuplicatesKeepLast(Tail(rows), seen)
         ELSE <<Head(rows)>> \o DropDuplicatesKeepLast(Tail(rows), seen)

\* out.drop_duplicates(subset=["item_norm"]): keeps the first of each key
RECURSIVE DropDuplicates(_, _)
DropDuplicates(rows, seen) ==
    IF rows = <<>> THEN <<>>
    ELSE IF Head(rows).item_norm \in seen
         THEN DropDuplicates(Tail(rows), seen)
         ELSE <<Head(rows)>>
              \o DropDuplicates(Tail(rows), seen \cup {Head(rows).item_norm})

\* Result of _standardize_dataset on a frame [columns, rows]: err when it raises
\* ValueError, else the rows of out in order
_standardize_dataset(frame) ==
    LET item_col == _pick_col(frame.columns, ItemCandidates)
        kcal_col == _pick_col(frame.columns, KcalCandidates)
        protein_col == _pick_col(frame.columns, ProteinCandidates)
        fat_col == _pick_col(frame.columns, FatCandidates)
        carbs_col == _pick_col(frame.columns, CarbsCandidates)
        Optional(r, col) == IF col # 0 THEN ToNumeric(r[col]) ELSE None
        Out(r) ==
            LET item == Strip(AsTypeStr(r[item_col]), Whitespace)
            IN  [item |-> item,
                 calories |-> ToNumeric(r[kcal_col]),
                 protein |-> Optional(r, protein_col),
                 fat |-> Optional(r, fat_col),
                 carbs |-> Optional(r, carbs_col),
                 item_norm |-> _norm_food_name(item)]
        out == [n \in 1..Len(frame.rows) |-> Out(frame.rows[n])]
    IN  IF item_col = 0 \/ kcal_col = 0
        THEN [err |-> TRUE, rows |-> <<>>]
        ELSE [err |-> FALSE, rows |-> DropDuplicates(DropNa(out), {})]

\* The encodings _read_kaggle_csv tries, in order
Encodings == <<"utf-8-sig", "utf-8", "latin1">>

\* Result of _read_kaggle_csv: err when it raises RuntimeError (every read_csv
\* attempt failed: the file is gone, or parses under no encoding)
_read_kaggle_csv(f, exists) ==
    IF exists /\ \E e \in 1..Len(Encodings) : Encodings[e] \in f.encodings
    THEN [err |-> FALSE, frame |-> [columns |-> f.header, rows |-> f.rows]]
    ELSE [err |-> TRUE, frame |-> [columns |-> <<>>, rows |-> <<>>]]

-----------------------------------------------------------------------------
(* A Python dict, in insertion order: a sequence of [key, val] *)

DictHas(d, key) == \E n \in 1..Len(d) : d[n].key = key
DictGet(d, key) == d[CHOOSE n \in 1..Len(d) : d[n].key = key].val
DictKeys(d) == [n \in 1..Len(d) |-> d[n].key]
DictSet(d, key, val) ==
    IF DictHas(d, key)
    THEN [n \in 1..Len(d) |-> IF d[n].key = key THEN [key |-> key, val |-> val] ELSE d[n]]
    ELSE Append(d, [key |-> key, val |-> val])

\* The record _load_local_dataset stores for row r of df (lines 129-135)
IndexRecord(r) ==
    [name |-> r.item,
     kcal |-> _to_float(r.calories),
     protein |-> _to_float(r.protein),
     carbs |-> _to_float(r.carbs),
     fat |-> _to_float(r.fat)]

\* What _lookup_food returns for Python's None
NoRecord == [name |-> <<>>, kcal |-> None, protein |-> None, carbs |-> None, fat |-> None]

-----------------------------------------------------------------------------
(* difflib.get_close_matches(q, _ALL_KEYS, n=1), as _lookup_food calls it *)

\* find_longest_match over all of a and b: the longest common block, the
\* earliest in a, and of those the earliest in b (no junk: autojunk only
\* acts on texts of 200 characters or more)
LongestMatch(a, b) ==
    LET Block(i, j, k) == SubSeq(a, i, i + k - 1) = SubSeq(b, j, j + k - 1)
        Sizes == {k \in 0..Len(a) :
                     \E i \in 1..(Len(a) - k + 1), j \in 1..(Len(b) - k + 1) : Block(i, j, k)}
        k == CHOOSE m \in Sizes : \A o \in Sizes : m >= o
        Is == {i \in 1..(Len(a) - k + 1) : \E j \in 1..(Len(b) - k + 1) : Block(i, j, k)}
        i == CHOOSE m \in Is : \A o \in Is : m <= o
        Js == {j \in 1..(Len(b) - k + 1) : Block(i, j, k)}
        j == CHOOSE m \in Js : \A o \in Js : m <= o
    IN  [i |-> i, j |-> j, k |-> k]

\* Total size of get_matching_blocks: the longest block, then the same to its
\* left and to its right
RECURSIVE MatchCount(_, _)
MatchCount(a, b) ==
    IF a = <<>> \/ b = <<>> THEN 0
    ELSE LET m == LongestMatch(a, b)
         IN  IF m.k = 0 THEN 0
             ELSE m.k
                  + MatchCount(SubSeq(a, 1, m.i - 1), SubSeq(b, 1, m.j - 1))
                  + MatchCount(SubSeq(a, m.i + m.k, Len(a)), SubSeq(b, m.j + m.k, Len(b)))

\* A ratio 2.0 * matches / length as the fraction num/den (1.0 when both
\* texts are empty)
CalculateRatio(matches, length) ==
    IF length = 0 THEN [num |-> 1, den |-> 1] ELSE [num |-> 2 * matches, den |-> length]

Ratio(a, b) == CalculateRatio(MatchCount(a, b), Len(a) + Len(b))

\* quick_ratio: the characters in common, counted with multiplicity
Count(s, c) == Cardinality({n \in 1..Len(s) : s[n] = c})
RECURSIVE SumMin(_, _, _)
SumMin(chars, a, b) ==
    IF chars = {} THEN 0
    ELSE LET c == CHOOSE x \in chars : TRUE
             ca == Count(a, c)
             cb == Count(b, c)
         IN  (IF ca < cb THEN ca ELSE cb) + SumMin(chars \ {c}, a, b)
QuickRatio(a, b) ==
    CalculateRatio(SumMin({b[n] : n \in 1..Len(b)}, a, b), Len(a) + Len(b))

\* real_quick_ratio: from the lengths alone
RealQuickRatio(a, b) ==
    CalculateRatio(IF Len(a) < Len(b) THEN Len(a) ELSE Len(b), Len(a) + Len(b))

\* cutoff=0.6, the default of get_close_matches, as CutoffNum/CutoffDen
CutoffNum == 3
CutoffDen == 5
AtLeastCutoff(r) == r.num * CutoffDen >= CutoffNum * r.den

RatioLess(r, s) == r.num * s.den < s.num * r.den

\* Characters in code point order, for the comparison of str
CodePoints == <<TAB, "\n", "\r", " ", "!", "\"", "'", "(", ")", ",", ".",
                "0", "1", "2", "3", "4", "5", "6", "7", "8", "9", ":", ";", "?">>
              \o UpperCase \o <<"[", "]", "_">> \o LowerCase \o <<"{", "}">>
CodePoint(c) == CHOOSE n \in 1..Len(CodePoints) : CodePoints[n] = c

RECURSIVE StrLess(_, _)
StrLess(x, y) ==
    IF y = <<>> THEN FALSE
    ELSE IF x = <<>> THEN TRUE
    ELSE IF Head(x) = Head(y) THEN StrLess(Tail(x), Tail(y))
    ELSE CodePoint(Head(x)) < CodePoint(Head(y))

\* The list get_close_matches returns: the possibility whose (score, x) is
\* largest among those that pass the three ratio tests, or nothing
get_close_matches(word, possibilities) ==
    LET ratio == [n \in 1..Len(possibilities) |-> Ratio(possibilities[n], word)]
        Passes(n) == /\ AtLeastCutoff(RealQuickRatio(possibilities[n], word))
                     /\ AtLeastCutoff(QuickRatio(possibilities[n], word))
                     /\ AtLeastCutoff(ratio[n])
        result == {n \in 1..Len(possibilities) : Passes(n)}
        \* (score, x) of m below (score, x) of n
        Smaller(m, n) ==
            \/ RatioLess(ratio[m], ratio[n])
            \/ ~RatioLess(ratio[n], ratio[m]) /\ StrLess(possibilities[m], possibilities[n])
    IN  IF result = {} THEN <<>>
        ELSE <<possibilities[CHOOSE n \in result : \A m \in result \ {n} : Smaller(m, n)]>>

-----------------------------------------------------------------------------
(* Dataset files and requests the model draws from *)

Egg == <<"E", "g", "g">>
EggUpperPadded == <<"E", "G", "G", " ">>
EggWh == <<"E", "g", "g", " ", "w", "h">>
BlankCell == <<" ", " ">>
EmptyCell == <<>>

ItemCells == {Egg, EggUpperPadded, EggWh, BlankCell, EmptyCell}

\* kcal, protein, fat, carbs cells of a row
NumericCells == { << <<"5">>, <<"1">>, <<"2">>, <<"3">> >>,
                  << <<"7">>, EmptyCell, <<"x">>, <<"0">> >>,
                  << <<"x">>, <<"1">>, <<"2">>, <<"3">> >> }

FullHeader == << <<"F","o","o","d">>, <<"k","c","a","l">>, <<"P","r","o","t","e","i","n">>,
                 <<"F","a","t">>, <<"C","a","r","b","s">> >>
FullRows == {<<item>> \o nums : item \in ItemCells, nums \in NumericCells}
            \cup { <<Egg, EmptyCell, <<"1">>, <<"2">>, <<"3">> >>,
                   <<EggWh, BlankCell, <<"1">>, <<"2">>, <<"3">> >> }

\* no optional column; the kcal column is found by the substring pass
MinHeader == << <<"N","a","m","e">>, <<"K","c","a","l","s">> >>
MinRows == { <<Egg, <<"5">> >>, <<EggWh, <<"x">> >> }

\* no column resolves to the calories
BadHeader == << <<"F","o","o","d">>, <<"q","t","y">> >>

AllEncodings == {Encodings[e] : e \in 1..Len(Encodings)}

SeqsUpTo(S, n) == UNION {[1..m -> S] : m \in 0..n}

FileOf(encodings, header, rows) ==
    [encodings |-> encodings, header |-> header, rows |-> rows]

AllFiles ==
    {FileOf(AllEncodings, FullHeader, rows) : rows \in SeqsUpTo(FullRows, MaxRows)}
    \cup {FileOf({"latin1"}, MinHeader, rows) : rows \in SeqsUpTo(MinRows, MaxRows)}
    \cup {FileOf(AllEncodings, BadHeader, << <<Egg, <<"5">> >> >>),
          FileOf({}, <<>>, <<>>)}

\* the files the lookups are run against: every order of a few names, one
\* of them blank
LookupRows == {<<item, <<"5">>, <<"1">>, <<"2">>, <<"3">> >> :
                  item \in {Egg, EggUpperPadded, EggWh, BlankCell}}
LookupFiles ==
    {FileOf(AllEncodings, FullHeader, rows) : rows \in SeqsUpTo(LookupRows, MaxRows)}

\* the files the concurrent workers are run against
SharedFiles ==
    {FileOf(AllEncodings, FullHeader,
            << <<EggWh, <<"5">>, <<"1">>, <<"2">>, <<"3">> >>,
               <<Egg, <<"7">>, EmptyCell, <<"x">>, <<"0">> >> >>),
     FileOf(AllEncodings, BadHeader, << <<Egg, <<"5">> >> >>),
     FileOf({}, <<>>, <<>>)}

\* request texts: none, an exact key, a part of keys, a misspelling that
\* contains a key, a stranger, and punctuation alone
NoFood == <<>>
AllFoods == {NoFood, <<"e","g","g">>, <<"e","g">>, <<"e","g","g","s">>, <<"z","z">>,
             <<".",".">>}
SharedFoods == {<<"e","g","g","s">>}
LoadFoods == {<<"e","g","g","s">>}

-----------------------------------------------------------------------------
(* ActionGetNutrition.run, one step per access to shared state *)

Workers == 1..NumWorkers

Idle(w) ==
    /\ pc' = [pc EXCEPT ![w] = "idle"]
    /\ food' = [food EXCEPT ![w] = NoFood]
    /\ df' = [df EXCEPT ![w] = <<>>]
    /\ row' = [row EXCEPT ![w] = 0]
    /\ hit' = [hit EXCEPT ![w] = NoRecord]
    /\ tier' = [tier EXCEPT ![w] = "none"]
    /\ reply' = [reply EXCEPT ![w] = "none"]

\* run returns after uttering msg
Utter(w, msg) ==
    /\ reply' = [reply EXCEPT ![w] = msg]
    /\ pc' = [pc EXCEPT ![w] = "done"]

\* lines 344-350: the food of the request; without one, run asks for it
Run(w) ==
    /\ pc[w] = "idle"
    /\ \E f \in menu :
          /\ food' = [food EXCEPT ![w] = f]
          /\ IF f = NoFood
             THEN Utter(w, "which_food")
             ELSE pc' = [pc EXCEPT ![w] = "check"] /\ UNCHANGED reply
    /\ UNCHANGED <<file, fileExists, _DATA_LOADED, _KAGGLE_INDEX, _ALL_KEYS, df, row,
                   hit, tier, nLoads, menu, normIn, normOut>>

\* a variant that takes a non-empty index for a loaded one
LoadCheckByIndex(w) ==
    /\ pc[w] = "check"
    /\ pc' = [pc EXCEPT ![w] = IF _KAGGLE_INDEX # <<>> THEN "exact" ELSE "exists"]
    /\ UNCHANGED <<file, fileExists, _DATA_LOADED, _KAGGLE_INDEX, _ALL_KEYS, food, df,
                   row, hit, tier, reply, nLoads, menu, normIn, normOut>>

\* lines 116-117
LoadCheck(w) ==
    /\ pc[w] = "check"
    /\ pc' = [pc EXCEPT ![w] = IF _DATA_LOADED THEN "exact" ELSE "exists"]
    /\ UNCHANGED <<file, fileExists, _DATA_LOADED, _KAGGLE_INDEX, _ALL_KEYS, food, df,
                   row, hit, tier, reply, nLoads, menu, normIn, normOut>>

\* a variant that marks the dataset as loaded when the file is missing
LoadExistsMarksLoaded(w) ==
    /\ pc[w] = "exists"
    /\ IF fileExists
       THEN pc' = [pc EXCEPT ![w] = "read"] /\ UNCHANGED <<reply, _DATA_LOADED>>
       ELSE Utter(w, "unavailable") /\ _DATA_LOADED' = TRUE
    /\ UNCHANGED <<file, fileExists, _KAGGLE_INDEX, _ALL_KEYS, food, df,
                   row, hit, tier, nLoads, menu, normIn, normOut>>

\* lines 119-120, and 354-356 when FileNotFoundError is raised
LoadExists(w) ==
    /\ pc[w] = "exists"
    /\ IF fileExists
       THEN pc' = [pc EXCEPT ![w] = "read"] /\ UNCHANGED reply
       ELSE Utter(w, "unavailable")
    /\ UNCHANGED <<file, fileExists, _DATA_LOADED, _KAGGLE_INDEX, _ALL_KEYS, food, df,
                   row, hit, tier, nLoads, menu, normIn, normOut>>

\* lines 122-123, and 354-356 when RuntimeError or ValueError is raised
LoadRead(w) ==
    /\ pc[w] = "read"
    /\ LET raw == _read_kaggle_csv(file, fileExists)
           std == _standardize_dataset(raw.frame)
       IN  IF raw.err \/ std.err
           THEN /\ Utter(w, "unavailable")
                /\ UNCHANGED <<df, row, nLoads>>
           ELSE /\ df' = [df EXCEPT ![w] = std.rows]
                /\ row' = [row EXCEPT ![w] = 1]
                /\ nLoads' = nLoads + 1
                /\ pc' = [pc EXCEPT ![w] = "populate"]
                /\ UNCHANGED reply
    /\ UNCHANGED <<file, fileExists, _DATA_LOADED, _KAGGLE_INDEX, _ALL_KEYS, food,
                   hit, tier, menu, normIn, normOut>>

\* lines 125-135: one turn of the loop
LoadRow(w) ==
    /\ pc[w] = "populate"
    /\ row[w] <= Len(df[w])
    /\ LET r == df[w][row[w]]
       IN  _KAGGLE_INDEX' = DictSet(_KAGGLE_INDEX, r.item_norm, IndexRecord(r))
    /\ row' = [row EXCEPT ![w] = row[w] + 1]
    /\ UNCHANGED <<file, fileExists, _DATA_LOADED, _ALL_KEYS, pc, food, df, hit, tier,
                   reply, nLoads, menu, normIn, normOut>>

\* line 137, after the loop
LoadKeys(w) ==
    /\ pc[w] = "populate"
    /\ row[w] > Len(df[w])
    /\ _ALL_KEYS' = DictKeys(_KAGGLE_INDEX)
    /\ pc' = [pc EXCEPT ![w] = "flag"]
    /\ UNCHANGED <<file, fileExists, _DATA_LOADED, _KAGGLE_INDEX, food, df, row, hit,
                   tier, reply, nLoads, menu, normIn, normOut>>

\* line 138
LoadFlag(w) ==
    /\ pc[w] = "flag"
    /\ _DATA_LOADED' = TRUE
    /\ pc' = [pc EXCEPT ![w] = "exact"]
    /\ UNCHANGED <<file, fileExists, _KAGGLE_INDEX, _ALL_KEYS, food, df, row, hit,
                   tier, reply, nLoads, menu, normIn, normOut>>

\* _lookup_food returns record from its tier t; lines 360-383
Return(w, record, t) ==
    /\ hit' = [hit EXCEPT ![w] = record]
    /\ tier' = [tier EXCEPT ![w] = t]
    /\ Utter(w, IF record = NoRecord THEN "no_data" ELSE "nutrition")

\* a variant that leaves the exact tier out
LookupExactSkipped(w) ==
    /\ pc[w] = "exact"
    /\ pc' = [pc EXCEPT ![w] = "substring"]
    /\ UNCHANGED <<file, fileExists, _DATA_LOADED, _KAGGLE_INDEX, _ALL_KEYS, food, df,
                   row, hit, tier, reply, nLoads, menu, normIn, normOut>>

\* lines 143-146
LookupExact(w) ==
    /\ pc[w] = "exact"
    /\ LET q == _norm_food_name(food[w])
       IN  IF DictHas(_KAGGLE_INDEX, q)
           THEN Return(w, DictGet(_KAGGLE_INDEX, q), "exact")
           ELSE pc' = [pc EXCEPT ![w] = "substring"] /\ UNCHANGED <<hit, tier, reply>>
    /\ UNCHANGED <<file, fileExists, _DATA_LOADED, _KAGGLE_INDEX, _ALL_KEYS, food, df,
                   row, nLoads, menu, normIn, normOut>>

\* a variant that returns the last key that contains the query
LookupSubstringLast(w) ==
    /\ pc[w] = "substring"
    /\ LET q == _norm_food_name(food[w])
           contains == SelectSeq(_ALL_KEYS, LAMBDA k : IsSubstring(q, k))
       IN  IF contains # <<>>
           THEN Return(w, DictGet(_KAGGLE_INDEX, contains[Len(contains)]), "substring")
           ELSE pc' = [pc EXCEPT ![w] = "fuzzy"] /\ UNCHANGED <<hit, tier, reply>>
    /\ UNCHANGED <<file, fileExists, _DATA_LOADED, _KAGGLE_INDEX, _ALL_KEYS, food, df,
                   row, nLoads, menu, normIn, normOut>>

\* lines 148-150
LookupSubstring(w) ==
    /\ pc[w] = "substring"
    /\ LET q == _norm_food_name(food[w])
           contains == SelectSeq(_ALL_KEYS, LAMBDA k : IsSubstring(q, k))
       IN  IF contains # <<>>
           THEN Return(w, DictGet(_KAGGLE_INDEX, contains[1]), "substring")
           ELSE pc' = [pc EXCEPT ![w] = "fuzzy"] /\ UNCHANGED <<hit, tier, reply>>
    /\ UNCHANGED <<file, fileExists, _DATA_LOADED, _KAGGLE_INDEX, _ALL_KEYS, food, df,
                   row, nLoads, menu, normIn, normOut>>

\* a variant that remembers a fuzzy hit under the query
LookupFuzzyMemo(w) ==
    /\ pc[w] = "fuzzy"
    /\ LET q == _norm_food_name(food[w])
           close == get_close_matches(q, _ALL_KEYS)
       IN  IF close # <<>>
           THEN /\ Return(w, DictGet(_KAGGLE_INDEX, close[1]), "fuzzy")
                /\ _KAGGLE_INDEX' = DictSet(_KAGGLE_INDEX, q, DictGet(_KAGGLE_INDEX, close[1]))
           ELSE /\ Return(w, NoRecord, "miss")
                /\ UNCHANGED _KAGGLE_INDEX
    /\ UNCHANGED <<file, fileExists, _DATA_LOADED, _ALL_KEYS, food, df,
                   row, nLoads, menu, normIn, normOut>>

\* lines 152-157
LookupFuzzy(w) ==
    /\ pc[w] = "fuzzy"
    /\ LET q == _norm_food_name(food[w])
           close == get_close_matches(q, _ALL_KEYS)
       IN  IF close # <<>>
           THEN Return(w, IF DictHas(_KAGGLE_INDEX, close[1])
                          THEN DictGet(_KAGGLE_INDEX, close[1])
                          ELSE NoRecord, "fuzzy")
           ELSE Return(w, NoRecord, "miss")
    /\ UNCHANGED <<file, fileExists, _DATA_LOADED, _KAGGLE_INDEX, _ALL_KEYS, food, df,
                   row, nLoads, menu, normIn, normOut>>

\* the worker is free for the next request
Finish(w) ==
    /\ pc[w] = "done"
    /\ Idle(w)
    /\ UNCHANGED <<file, fileExists, _DATA_LOADED, _KAGGLE_INDEX, _ALL_KEYS, nLoads,
                   menu, normIn, normOut>>

\* the dataset file is taken away, or put back
RemoveFile ==
    /\ fileExists
    /\ fileExists' = FALSE
    /\ UNCHANGED <<file, _DATA_LOADED, _KAGGLE_INDEX, _ALL_KEYS, pc, food, df, row, hit,
                   tier, reply, nLoads, menu, normIn, normOut>>

RestoreFile ==
    /\ ~fileExists
    /\ fileExists' = TRUE
    /\ UNCHANGED <<file, _DATA_LOADED, _KAGGLE_INDEX, _ALL_KEYS, pc, food, df, row, hit,
                   tier, reply, nLoads, menu, normIn, normOut>>

\* the process after import: lines 20-22
InitProcess ==
    /\ _DATA_LOADED = FALSE
    /\ _KAGGLE_INDEX = <<>>
    /\ _ALL_KEYS = <<>>
    /\ food = [w \in Workers |-> NoFood]
    /\ df = [w \in Workers |-> <<>>]
    /\ row = [w \in Workers |-> 0]
    /\ hit = [w \in Workers |-> NoRecord]
    /\ tier = [w \in Workers |-> "none"]
    /\ reply = [w \in Workers |-> "none"]
    /\ nLoads = 0

Init ==
    /\ InitProcess
    /\ normIn = <<>>
    /\ normOut = <<>>
    /\ file \in SharedFiles
    /\ fileExists \in BOOLEAN
    /\ menu = SharedFoods
    /\ pc = [w \in Workers |-> "idle"]

\* a step of worker w
Step(w) ==
    \/ Run(w)
    \/ LoadCheck(w)
    \/ LoadExists(w)
    \/ LoadRead(w)
    \/ LoadRow(w)
    \/ LoadKeys(w)
    \/ LoadFlag(w)
    \/ LookupExact(w)
    \/ LookupSubstring(w)
    \/ LookupFuzzy(w)
    \/ Finish(w)

Next ==
    \/ \E w \in Workers : Step(w)
    \/ RemoveFile
    \/ RestoreFile

\* concurrent request workers on one process
Spec == Init /\ [][Next]_vars

\* one worker serving requests in turn, over every dataset of the bounds
InitLoad ==
    /\ InitProcess
    /\ normIn = <<>>
    /\ normOut = <<>>
    /\ file \in AllFiles
    /\ fileExists = TRUE
    /\ menu = LoadFoods
    /\ pc = [w \in Workers |-> IF w = 1 THEN "idle" ELSE "off"]

NextSeq == \E w \in Workers : Step(w)

SpecLoad == InitLoad /\ [][NextSeq]_vars

\* one worker serving every request text in turn
InitLookup ==
    /\ InitProcess
    /\ normIn = <<>>
    /\ normOut = <<>>
    /\ file \in LookupFiles
    /\ fileExists = TRUE
    /\ menu = AllFoods
    /\ pc = [w \in Workers |-> IF w = 1 THEN "idle" ELSE "off"]

SpecLookup == InitLookup /\ [][NextSeq]_vars

-----------------------------------------------------------------------------
(* The normalizer on its own: _norm_food_name applied to a text, and again
   to its own result *)

NormChars == {"a", "B", " ", TAB, "."}

InitNorm ==
    /\ InitProcess
    /\ file = FileOf({}, <<>>, <<>>)
    /\ fileExists = FALSE
    /\ menu = {}
    /\ pc = [w \in Workers |-> "off"]
    /\ normIn \in SeqsUpTo(NormChars, MaxStrLen)
    /\ normOut = <<>>

Normalize ==
    /\ Len(normOut) < 2
    /\ normOut' = Append(normOut, _norm_food_name(IF normOut = <<>> THEN normIn
                                                   ELSE normOut[Len(normOut)]))
    /\ UNCHANGED <<file, fileExists, _DATA_LOADED, _KAGGLE_INDEX, _ALL_KEYS, pc, food,
                   df, row, hit, tier, reply, nLoads, menu, normIn>>

NextNorm == Normalize

SpecNorm == InitNorm /\ [][NextNorm]_vars

-----------------------------------------------------------------------------
(* Claims *)

\* C5: normalization is idempotent: normalizing the result of _norm_food_name
\* again gives the same text, for every input text.
NormalizeIdempotent ==
    Len(normOut) = 2 => normOut[2] = normOut[1]

\* What a load of each shared file gives: whether it gets through, and the
\* standardized table
LoadOf(f) ==
    LET raw == _read_kaggle_csv(f, TRUE)
        std == _standardize_dataset(raw.frame)
    IN  IF raw.err \/ std.err THEN [ok |-> FALSE, rows |-> <<>>]
        ELSE [ok |-> TRUE, rows |-> std.rows]
StandardizedTable == [f \in SharedFiles |-> LoadOf(f)]

InLookup(w) == pc[w] \in {"exact", "substring", "fuzzy"}

\* C1: however many workers call _load_local_dataset while the index is not
\* loaded, at most one load (read, standardize, populate) runs in the life of
\* the process.
AtMostOneLoad ==
    nLoads <= 1

\* C2: once _DATA_LOADED is set, no step of any _load_local_dataset or
\* _lookup_food call changes _KAGGLE_INDEX or _ALL_KEYS, and the flag stays set.
IndexImmutableOnceLoaded ==
    [][_DATA_LOADED => /\ _DATA_LOADED'
                       /\ _KAGGLE_INDEX' = _KAGGLE_INDEX
                       /\ _ALL_KEYS' = _ALL_KEYS]_vars

\* a request that found the flag set has looked up and answered, while the
\* index holds the records
IndexImmutableWitness ==
    /\ _DATA_LOADED
    /\ _KAGGLE_INDEX # <<>>
    /\ \E w \in Workers : pc[w] = "done" /\ reply[w] = "nutrition" /\ df[w] = <<>>

\* C10: under every interleaving of run calls, a _lookup_food in progress sees
\* the whole index: _ALL_KEYS holds every key of the standardized table in
\* order, and _KAGGLE_INDEX maps each of them to its record.
LookupSeesCompleteIndex ==
    \A w \in Workers :
        InLookup(w) =>
            LET t == StandardizedTable[file].rows
            IN  /\ StandardizedTable[file].ok
                /\ _ALL_KEYS = [n \in 1..Len(t) |-> t[n].item_norm]
                /\ _KAGGLE_INDEX = [n \in 1..Len(t) |->
                                       [key |-> t[n].item_norm, val |-> IndexRecord(t[n])]]

\* a lookup is in progress while another worker is still inside its own load
LookupDuringLoadWitness ==
    \E w, v \in Workers :
        /\ InLookup(w)
        /\ pc[v] = "populate"
        /\ row[v] <= Len(df[v])
        /\ Len(_ALL_KEYS) > 1

\* C9: a load that fails signals the error and leaves the flag false and the
\* index and key list untouched; as long as no load got through they are empty;
\* run then answers "unavailable" without looking up; a request made while the
\* flag is false tries the load again.
FailedLoadLeavesNoTrace ==
    /\ [](nLoads = 0 => ~_DATA_LOADED /\ _KAGGLE_INDEX = <<>> /\ _ALL_KEYS = <<>>)
    /\ [](\A w \in Workers : reply[w] = "unavailable" => tier[w] = "none" /\ hit[w] = NoRecord)
    /\ [][\A w \in Workers :
             /\ (reply'[w] = "unavailable" /\ reply[w] # "unavailable") =>
                    UNCHANGED <<_DATA_LOADED, _KAGGLE_INDEX, _ALL_KEYS>>
             /\ (pc[w] = "check" /\ pc'[w] # "check" /\ ~_DATA_LOADED) =>
                    pc'[w] = "exists"]_vars

\* one request was answered "unavailable", and a later one loaded the restored file
RetryAfterFailureWitness ==
    \E w, v \in Workers :
        /\ pc[w] = "done"
        /\ reply[w] = "unavailable"
        /\ pc[v] = "done"
        /\ reply[v] = "nutrition"
        /\ _DATA_LOADED

-----------------------------------------------------------------------------
(* Claims about one lookup and one load, stated on the dataset file itself.
   Every header of AllFiles that loads has the item in column 1, the calories
   in column 2 and, when it has them, protein, fat and carbs in columns 3-5. *)

\* the request of worker w has gone through _lookup_food
Answered(w) == pc[w] = "done" /\ tier[w] # "none"

IsKey(q) == \E n \in 1..Len(_KAGGLE_INDEX) : _KAGGLE_INDEX[n].key = q
Containing(q) == {n \in 1..Len(_ALL_KEYS) : IsSubstring(q, _ALL_KEYS[n])}
RecordOf(key) == _KAGGLE_INDEX[CHOOSE n \in 1..Len(_KAGGLE_INDEX) : _KAGGLE_INDEX[n].key = key].val

\* C3: the tiers of _lookup_food apply in order and the first success wins: a
\* query whose normal form is a key gets the record of that very key, whatever
\* other keys contain it; a fuzzy result comes only when no key equals or
\* contains the query; nothing is found only when all three tiers fail.
FirstTierWins ==
    \A w \in Workers :
        Answered(w) =>
            LET q == _norm_food_name(food[w])
                close == \E n \in 1..Len(_ALL_KEYS) : AtLeastCutoff(Ratio(_ALL_KEYS[n], q))
            IN  /\ IsKey(q) => tier[w] = "exact" /\ hit[w] = RecordOf(q)
                /\ tier[w] = "substring" => ~IsKey(q)
                /\ tier[w] = "fuzzy" => ~IsKey(q) /\ Containing(q) = {}
                /\ tier[w] = "miss" => ~IsKey(q) /\ Containing(q) = {} /\ ~close
                /\ hit[w] = NoRecord <=> tier[w] = "miss"
                /\ reply[w] = "no_data" <=> tier[w] = "miss"

\* the exact key was returned although an earlier key contains the query
ExactBeatsSubstringWitness ==
    \E w \in Workers :
        /\ Answered(w)
        /\ tier[w] = "exact"
        /\ \E m, n \in 1..Len(_ALL_KEYS) :
              /\ m < n
              /\ _ALL_KEYS[n] = _norm_food_name(food[w])
              /\ IsSubstring(_norm_food_name(food[w]), _ALL_KEYS[m])

\* C4: when the normalized query is no key, the substring tier returns the
\* record of the first key of _ALL_KEYS, in order, that contains the query; a
\* key that is only a part of the query does not match in this tier.
SubstringTierFirstContainingKey ==
    \A w \in Workers :
        Answered(w) =>
            LET q == _norm_food_name(food[w])
                c == Containing(q)
            IN  /\ _ALL_KEYS = [n \in 1..Len(_KAGGLE_INDEX) |-> _KAGGLE_INDEX[n].key]
                /\ (~IsKey(q) /\ c # {}) =>
                       /\ tier[w] = "substring"
                       /\ \E n \in c : /\ \A m \in c : n <= m
                                       /\ hit[w] = RecordOf(_ALL_KEYS[n])
                /\ tier[w] = "substring" =>
                       /\ ~IsKey(q) /\ c # {}
                       /\ \A n \in 1..Len(_ALL_KEYS) :
                              Len(_ALL_KEYS[n]) < Len(q) => hit[w] # RecordOf(_ALL_KEYS[n])

\* the substring tier answered while two keys contain the query
SubstringTierWitness ==
    \E w \in Workers :
        /\ Answered(w)
        /\ tier[w] = "substring"
        /\ Cardinality(Containing(_norm_food_name(food[w]))) > 1

\* the display name and the normalized key of raw row n of the file
DisplayName(n) == Strip(AsTypeStr(file.rows[n][1]), Whitespace)
KeyOfRow(n) == _norm_food_name(DisplayName(n))
\* the rows that come through the filtering of _standardize_dataset
Surviving == {n \in 1..Len(file.rows) : ToNumeric(file.rows[n][2]) # NaN}

FirstCandidates(key) == {n \in Surviving : KeyOfRow(n) = key}

\* C6: after a load the index holds exactly one record for each distinct
\* normalized key of the surviving rows, and it carries the display name and
\* the numbers of the first surviving row with that key.
FirstOccurrenceWins ==
    _DATA_LOADED =>
        /\ \A i, j \in 1..Len(_KAGGLE_INDEX) :
               _KAGGLE_INDEX[i].key = _KAGGLE_INDEX[j].key => i = j
        /\ {_KAGGLE_INDEX[i].key : i \in 1..Len(_KAGGLE_INDEX)} = {KeyOfRow(n) : n \in Surviving}
        /\ \A i \in 1..Len(_KAGGLE_INDEX) :
               LET same == FirstCandidates(_KAGGLE_INDEX[i].key)
                   first == CHOOSE n \in same : \A m \in same : n <= m
                   val == _KAGGLE_INDEX[i].val
               IN  /\ val.name = DisplayName(first)
                   /\ val.kcal = ToNumeric(file.rows[first][2])
                   /\ Len(file.header) = 5 =>
                          /\ val.protein = ToNumeric(file.rows[first][3])
                          /\ val.fat = ToNumeric(file.rows[first][4])
                          /\ val.carbs = ToNumeric(file.rows[first][5])

\* a file was loaded in which two surviving rows of different calories share a key
DuplicateKeyWitness ==
    /\ _DATA_LOADED
    /\ \E m, n \in Surviving :
          /\ m < n
          /\ KeyOfRow(m) = KeyOfRow(n)
          /\ file.rows[m][2] # file.rows[n][2]

\* C7: the index has no record for a raw row whose display name is empty (a
\* blank or missing item cell) or whose calories cell is missing, blank or not
\* a number, and every other row survives the filtering.
DropsEmptyNameAndMissingCalories ==
    _DATA_LOADED =>
        LET Valid(n) == /\ Strip(file.rows[n][1], Whitespace) # <<>>
                        /\ ToNumeric(file.rows[n][2]) # NaN
        IN  /\ \A i \in 1..Len(_KAGGLE_INDEX) :
                   \E n \in 1..Len(file.rows) :
                       Valid(n) /\ _KAGGLE_INDEX[i].val.name = Strip(file.rows[n][1], Whitespace)
            /\ \A n \in 1..Len(file.rows) : Valid(n) => IsKey(KeyOfRow(n))

\* C8: each of protein, carbs and fat of every record is a number or None; it
\* is None whenever its column is not resolved or the cell of the row is blank
\* or not a number; it is never NaN.
OptionalFieldsNumberOrNone ==
    _DATA_LOADED =>
        \A i \in 1..Len(_KAGGLE_INDEX) :
            LET val == _KAGGLE_INDEX[i].val
                same == FirstCandidates(_KAGGLE_INDEX[i].key)
                first == CHOOSE n \in same : \A m \in same : n <= m
                Absent(col) == \/ Len(file.header) < col
                               \/ ToNumeric(file.rows[first][col]) = NaN
            IN  /\ val.protein # NaN /\ val.carbs # NaN /\ val.fat # NaN
                /\ Absent(3) => val.protein = None
                /\ Absent(4) => val.fat = None
                /\ Absent(5) => val.carbs = None

====
